---- MODULE Spec2Model ----
(***************************************************************************)
(* Model of src/authenticator.py: the Authenticator of the captive-portal  *)
(* login client.  The state is the Authenticator's two session fields, the *)
(* locals of run/__login/__keepalive, the position of the main loop, and   *)
(* the way the process ended.  Every HTTP request is one step whose reply  *)
(* (or transport failure) is chosen by the network.  SIGINT may be         *)
(* delivered between any two steps of the main loop; the handler then runs *)
(* to completion on the main thread.                                       *)
(*                                                                         *)
(* Only the locals of the frames that are live are kept: the locals of     *)
(* __login and __keepalive go with their frame when they return, and run's *)
(* status, response and url are dead from the moment control is back at    *)
(* line 398 (lines 398 and 409 overwrite them before any read).            *)
(*                                                                         *)
(* Strings are sequences of atoms: a URL is a sequence over Atoms, plus    *)
(* the two canary URLs.  The result of re.search is an option: <<>> for    *)
(* None, <<g>> for a match whose group is g.                               *)
(***************************************************************************)
EXTENDS Integers, Sequences, FiniteSets, TLC

VARIABLES
    logged_in,    \* Authenticator.__logged_in
    logout_url,   \* Authenticator.__logout_url
    pc,           \* position of the main thread in run / __login / __keepalive
    status,       \* local `status` of run
    response,     \* local `response` of run / __login / __keepalive
    url,          \* local `url` of run and __login (the scraped redirect target)
    post,         \* locals (url, magic) of __login for the credential POST
    ka_url,       \* argument `url` of __keepalive
    net,          \* what the network did with the last request: <<>> or <<reply>>
    last_req,     \* the last HTTP request issued: [kind, url]
    sent_magic,   \* the magic field of the form data of that request, if a POST
    tick,         \* parity of the number of HTTP requests issued
    last_probe,   \* the reply URL and classification of the previous probe
    interrupted,  \* SIGINT has been delivered
    exit_code,    \* <<>> while running, <<c>> once the process has exited
    crash         \* the unhandled exception that ended the process, or "none"

vars == <<logged_in, logout_url, pc, status, response, url, post, ka_url, net,
          last_req, sent_magic, tick, last_probe, interrupted, exit_code,
          crash>>

locals == <<status, response, url, post, ka_url>>
session == <<logged_in, logout_url>>

\* ------------------------------------------------------------------------
\* Bounds and alphabets

\* Longest URL (in atoms) the network serves or embeds in a page.
MaxUrlLen == 2

Atoms == {"https://gw/", "keepalive"}

ONE_ONE_ONE_ONE == <<"http://1.1.1.1/">>
ONE_ONE_ONE_ONE_HTTPS == <<"https://1.1.1.1/">>

RECURSIVE SeqsUpTo(_, _)
SeqsUpTo(S, n) ==
    IF n = 0 THEN {<<>>}
    ELSE LET shorter == SeqsUpTo(S, n - 1)
         IN  shorter \cup {Append(s, a) : s \in shorter, a \in S}

\* Strings a page can embed in window.location="..." (the regex group is
\* "(.*)": the empty string and strings that are no URL included).
EmbeddedUrls == SeqsUpTo(Atoms, MaxUrlLen)

IsSchemeAndHost(a) ==
    a \in {"https://gw/", "http://gw/", "https://1.1.1.1/", "http://1.1.1.1/"}

\* A string requests accepts as a URL: it starts with scheme and host.
WellFormed(u) == u # <<>> /\ IsSchemeAndHost(Head(u))

\* Final URLs of a response: the gateway's secure URLs and one plaintext one.
FinalUrls == {u \in EmbeddedUrls : WellFormed(u)} \cup {<<"http://gw/">>}
\* Final URLs of the canary GET: the canary itself, its secure form (no
\* interception), or a gateway address it was redirected to.
ProbeFinalUrls ==
    {ONE_ONE_ONE_ONE, ONE_ONE_ONE_ONE_HTTPS, <<"https://gw/">>, <<"http://gw/">>}

StatusCodes == {200, 404}
Magics == {"m1", "m2"}

None == <<>>
Some(x) == <<x>>

NoResponse == [status |-> 0, url |-> <<>>, redirect |-> None, magic |-> None]
NoRequest == [kind |-> "none", url |-> <<>>]
NoPost == [url |-> <<>>, magic |-> None]

\* ------------------------------------------------------------------------
\* Pure helpers

\* str.replace(old, new) on a sequence of atoms: every occurrence is replaced.
RECURSIVE Replace(_, _, _)
Replace(s, old, new) ==
    IF s = <<>> THEN <<>>
    ELSE <<IF Head(s) = old THEN new ELSE Head(s)>> \o Replace(Tail(s), old, new)

IsHttpsBase(a) == a \in {"https://gw/", "https://1.1.1.1/"}

\* re.search("https://[a-z:0-9.]*/", response.url): the first secure
\* scheme+host+"/" found anywhere in the URL, None when there is none.
BaseUrl(u) ==
    LET hits == SelectSeq(u, IsHttpsBase)
    IN  IF hits = <<>> THEN None ELSE Some(<<Head(hits)>>)

\* ------------------------------------------------------------------------
\* The network: what a request can come back with

Option(S) == {None} \cup {Some(x) : x \in S}

\* Reply to the canary GET: the code reads status_code, then url and text.
\* The text of a reply whose status is not 200 is never read.
ProbeReplies ==
    [status : {200}, url : ProbeFinalUrls,
     redirect : Option(EmbeddedUrls), magic : {None}]
    \cup [status : StatusCodes \ {200}, url : ProbeFinalUrls,
          redirect : {None}, magic : {None}]
\* Reply to the GET of the captive-portal page: status_code, url, text (magic).
PortalReplies ==
    [status : StatusCodes, url : FinalUrls,
     redirect : {None}, magic : Option(Magics)]
\* Reply to the credential POST to u: status_code and text (script redirect).
PostReplies(u) ==
    [status : {200}, url : {u},
     redirect : Option(EmbeddedUrls), magic : {None}]
    \cup [status : StatusCodes \ {200}, url : {u},
          redirect : {None}, magic : {None}]
\* Reply to a GET whose final URL the code reads (post-login target, keepalive).
GetReplies ==
    [status : StatusCodes, url : FinalUrls, redirect : {None}, magic : {None}]
\* Reply to the logout GET to u: only status_code is read.
LogoutReplies(u) ==
    [status : StatusCodes, url : {u}, redirect : {None}, magic : {None}]

\* requests.get / requests.post on u: a RequestException (None) or a reply.
\* A string that is no URL raises MissingSchema, a RequestException, before
\* any I/O; on a URL the exception is a transport failure.
Outcomes(u, Replies) ==
    IF WellFormed(u) THEN Option(Replies) ELSE {None}

\* The form data of the POST carries the local `magic` (lines 323-328).
Send(kind, u, out) ==
    /\ last_req' = [kind |-> kind, url |-> u]
    /\ sent_magic' = IF kind = "post" THEN post.magic ELSE None
    /\ tick' = 1 - tick
    /\ net' = out

NoSend == UNCHANGED <<net, last_req, sent_magic, tick>>

DropLocals ==
    /\ status' = FALSE
    /\ response' = NoResponse
    /\ url' = <<>>
    /\ post' = NoPost
    /\ ka_url' = <<>>

\* exit(code=c), or the interpreter ending on an unhandled exception exc.
Exit(c, exc) ==
    /\ pc' = "done"
    /\ exit_code' = <<c>>
    /\ crash' = exc
    /\ DropLocals

Goto(p) ==
    /\ pc' = p
    /\ UNCHANGED <<exit_code, crash>>

\* `continue` of run's loop, or __keepalive returning: back at line 398.
ProbeAgain ==
    /\ Goto("state_check")
    /\ DropLocals

\* ------------------------------------------------------------------------
\* Init: the state after Authenticator.__init__, run() about to start

Init ==
    /\ logged_in = FALSE
    /\ logout_url = <<>>
    /\ pc = "state_check"
    /\ status = FALSE
    /\ response = NoResponse
    /\ url = <<>>
    /\ post = NoPost
    /\ ka_url = <<>>
    /\ net = None
    /\ last_req = NoRequest
    /\ sent_magic = None
    /\ tick = 0
    /\ last_probe = [url |-> <<>>, status |-> FALSE]
    /\ interrupted = FALSE
    /\ exit_code = <<>>
    /\ crash = "none"

\* ------------------------------------------------------------------------
\* __state_check: one canary GET of the retry loop

\* Mutant of IsLoggedInUrl: the scheme of the final URL is not compared.
IsLoggedInUrl_AnyScheme(u) == u \in {ONE_ONE_ONE_ONE, ONE_ONE_ONE_ONE_HTTPS}

\* response.url == ONE_ONE_ONE_ONE_HTTPS
IsLoggedInUrl(u) == u = ONE_ONE_ONE_ONE_HTTPS

\* Mutant of state_check_session: the prober stores its classification in the
\* session flag.
state_check_session_StoresFlag ==
    /\ logged_in' = status'
    /\ UNCHANGED logout_url

\* __state_check assigns neither __logged_in nor __logout_url.
state_check_session == UNCHANGED session

\* Mutant of state_check_failed: the RequestException is not caught.
state_check_failed_Uncaught ==
    /\ Exit(1, "RequestException")
    /\ UNCHANGED last_probe

\* Lines 288-290: RequestException: log, continue
state_check_failed ==
    /\ Goto("state_check")
    /\ UNCHANGED <<status, response, last_probe>>

state_check ==
    /\ pc = "state_check"
    /\ \E out \in Outcomes(ONE_ONE_ONE_ONE, ProbeReplies) :
          /\ Send("probe", ONE_ONE_ONE_ONE, out)
          /\ IF out = None
             THEN state_check_failed
             ELSE LET r == out[1] IN
                  /\ response' = r
                  /\ IF r.status = 200
                     THEN /\ status' = IsLoggedInUrl(r.url)
                          /\ last_probe' = [url |-> r.url, status |-> status']
                          /\ Goto("run_probed")
                     ELSE /\ Goto("state_check")
                          /\ UNCHANGED <<status, last_probe>>
    /\ state_check_session
    /\ UNCHANGED <<url, post, ka_url, interrupted>>

\* ------------------------------------------------------------------------
\* run: after the probe returned

\* Lines 401-410
run_probed ==
    /\ pc = "run_probed"
    /\ IF status
       THEN /\ Goto("run_sleep")
            /\ UNCHANGED locals
       ELSE IF response.redirect = None
            THEN \* re.search(...)[1] on None
                 Exit(1, "TypeError")
            ELSE /\ url' = response.redirect[1]
                 /\ Goto("run_fetch_portal")
                 /\ UNCHANGED <<status, response, post, ka_url>>
    /\ NoSend
    /\ UNCHANGED <<session, last_probe, interrupted>>

\* Mutant of run_sleep: the `continue` after the sleep is missing and run
\* falls through to line 409.
run_sleep_FallsThrough ==
    /\ pc = "run_sleep"
    /\ IF response.redirect = None
       THEN Exit(1, "TypeError")
       ELSE /\ url' = response.redirect[1]
            /\ Goto("run_fetch_portal")
            /\ UNCHANGED <<status, response, post, ka_url>>
    /\ NoSend
    /\ UNCHANGED <<session, last_probe, interrupted>>

\* time.sleep(retry) returns; continue
run_sleep ==
    /\ pc = "run_sleep"
    /\ ProbeAgain
    /\ NoSend
    /\ UNCHANGED <<session, last_probe, interrupted>>

\* Lines 411-415: requests.get(url) of the captive-portal page; no try
run_fetch_portal ==
    /\ pc = "run_fetch_portal"
    /\ \E out \in Outcomes(url, PortalReplies) :
          /\ Send("portal", url, out)
          /\ IF out = None
             THEN Exit(1, "RequestException")
             ELSE IF out[1].status # 200
                  THEN ProbeAgain
                  ELSE /\ response' = out[1]
                       /\ Goto("login_scrape")
                       /\ UNCHANGED <<status, url, post, ka_url>>
    /\ UNCHANGED <<session, last_probe, interrupted>>

\* ------------------------------------------------------------------------
\* __login

\* Mutant of login_scrape: a page without a magic field is treated as a
\* retryable failure (return False, None) instead of exit(code=1).
login_scrape_RetryOnMissingMagic ==
    /\ pc = "login_scrape"
    /\ IF BaseUrl(response.url) = None
       THEN Exit(1, "none")
       ELSE IF response.magic = None
            THEN ProbeAgain
            ELSE /\ post' = [url |-> BaseUrl(response.url)[1],
                             magic |-> response.magic]
                 /\ Goto("login_post")
                 /\ UNCHANGED <<status, response, url, ka_url>>
    /\ NoSend
    /\ UNCHANGED <<session, last_probe, interrupted>>

\* Mutant of ScrapedMagic: a token kept from an earlier page is sent.
ScrapedMagic_Cached(r) == Some("m1")

\* Lines 317-321: magic = re.search(..., response.text)[2]
ScrapedMagic(r) == r.magic

\* Lines 312-328: base URL and magic token scraped from the portal page.
login_scrape ==
    /\ pc = "login_scrape"
    /\ IF BaseUrl(response.url) = None
       THEN Exit(1, "none")
       ELSE IF response.magic = None
            THEN Exit(1, "none")
            ELSE /\ post' = [url |-> BaseUrl(response.url)[1],
                             magic |-> ScrapedMagic(response)]
                 /\ Goto("login_post")
                 /\ UNCHANGED <<status, response, url, ka_url>>
    /\ NoSend
    /\ UNCHANGED <<session, last_probe, interrupted>>

\* Lines 330-346: the credential POST and the script redirect of its reply.
login_post ==
    /\ pc = "login_post"
    /\ \E out \in Outcomes(post.url, PostReplies(post.url)) :
          /\ Send("post", post.url, out)
          /\ IF out = None
             THEN \* return False, None
                  ProbeAgain
             ELSE LET r == out[1] IN
                  IF r.status # 200
                  THEN \* return False, response
                       ProbeAgain
                  ELSE IF r.redirect = None
                       THEN Exit(1, "none")
                       ELSE /\ response' = r
                            /\ url' = r.redirect[1]
                            /\ Goto("login_follow")
                            /\ UNCHANGED <<status, post, ka_url>>
    /\ UNCHANGED <<session, last_probe, interrupted>>

\* Mutant of LogoutUrlOf: the URL is stored without the substitution.
LogoutUrlOf_NoReplace(u) == u

\* url.replace("keepalive", "logout")
LogoutUrlOf(u) == Replace(u, "keepalive", "logout")

\* Mutant of login_follow_session: the logout URL is stored before the
\* status of the reply is checked.
login_follow_session_StoresEarly ==
    /\ logout_url' = LogoutUrlOf(url)
    /\ UNCHANGED logged_in

\* Lines 347-350 assign no session field.
login_follow_session == UNCHANGED session

\* Lines 347-350: GET of the redirect target; not inside a try.
login_follow ==
    /\ pc = "login_follow"
    /\ \E out \in Outcomes(url, GetReplies) :
          /\ Send("follow", url, out)
          /\ IF out = None
             THEN Exit(1, "RequestException")
             ELSE IF out[1].status # 200
                  THEN \* return False, response
                       ProbeAgain
                  ELSE /\ response' = out[1]
                       /\ Goto("login_set_logged_in")
                       /\ UNCHANGED <<status, url, post, ka_url>>
    /\ login_follow_session
    /\ UNCHANGED <<last_probe, interrupted>>

\* Mutant of login_set_logged_in: the flag is not set on success.
login_set_logged_in_Forgotten ==
    /\ pc = "login_set_logged_in"
    /\ Goto("login_set_logout_url")
    /\ NoSend
    /\ UNCHANGED <<session, locals, last_probe, interrupted>>

\* Line 353: self.__logged_in = True
login_set_logged_in ==
    /\ pc = "login_set_logged_in"
    /\ logged_in' = TRUE
    /\ Goto("login_set_logout_url")
    /\ NoSend
    /\ UNCHANGED <<logout_url, locals, last_probe, interrupted>>

\* Lines 354-355 and run's 415-422: the logout URL is stored, __login returns
\* (True, response) and run calls __keepalive(response.url).
login_set_logout_url ==
    /\ pc = "login_set_logout_url"
    /\ logout_url' = LogoutUrlOf(url)
    /\ status' = TRUE
    /\ ka_url' = response.url
    /\ url' = <<>>
    /\ post' = NoPost
    /\ Goto("keepalive")
    /\ NoSend
    /\ UNCHANGED <<logged_in, response, last_probe, interrupted>>

\* ------------------------------------------------------------------------
\* __keepalive

\* Mutant of KeepaliveHealthy: the final URL is not compared.
KeepaliveHealthy_StatusOnly(r, u) == r.status = 200

\* response.status_code == 200 and response.url == url
KeepaliveHealthy(r, u) == r.status = 200 /\ r.url = u

\* Mutant of keepalive_lost: the loop is left without clearing the flag.
keepalive_lost_KeepsFlag ==
    /\ UNCHANGED logged_in
    /\ ProbeAgain

\* Lines 373-374 and 383-384: self.__logged_in = False; break
keepalive_lost ==
    /\ logged_in' = FALSE
    /\ ProbeAgain

\* Lines 368-384: one round of the loop
keepalive ==
    /\ pc = "keepalive"
    /\ \E out \in Outcomes(ka_url, GetReplies) :
          /\ Send("keepalive", ka_url, out)
          /\ IF out = None
             THEN keepalive_lost
             ELSE IF KeepaliveHealthy(out[1], ka_url)
                  THEN /\ response' = out[1]
                       /\ Goto("keepalive_sleep")
                       /\ UNCHANGED <<logged_in, status, url, post, ka_url>>
                  ELSE keepalive_lost
    /\ UNCHANGED <<logout_url, last_probe, interrupted>>

\* Mutant of keepalive_sleep: the loop is left after the sleep (break where
\* the code has continue).
keepalive_sleep_Breaks ==
    /\ pc = "keepalive_sleep"
    /\ ProbeAgain
    /\ NoSend
    /\ UNCHANGED <<session, last_probe, interrupted>>

\* time.sleep(keepalive) returns; continue
keepalive_sleep ==
    /\ pc = "keepalive_sleep"
    /\ Goto("keepalive")
    /\ NoSend
    /\ UNCHANGED <<session, locals, last_probe, interrupted>>

\* ------------------------------------------------------------------------
\* __interupt_handler: SIGINT delivered while the main loop is at pc

\* Mutant of HandlerLogsOut: the handler goes by the stored URL.
HandlerLogsOut_ByUrl == logout_url # <<>>

\* Line 257: if self.__logged_in
HandlerLogsOut == logged_in

interupt_handler ==
    /\ pc # "done"
    /\ interrupted' = TRUE
    /\ IF HandlerLogsOut
       THEN \E out \in Outcomes(logout_url, LogoutReplies(logout_url)) :
               /\ Send("logout", logout_url, out)
               /\ IF out = None
                  THEN \* the bare except logs; `response` is then unbound
                       Exit(1, "UnboundLocalError")
                  ELSE Exit(0, "none")
       ELSE /\ Exit(0, "none")
            /\ NoSend
    /\ UNCHANGED <<session, last_probe>>

\* ------------------------------------------------------------------------

Next ==
    \/ state_check
    \/ run_probed
    \/ run_sleep
    \/ run_fetch_portal
    \/ login_scrape
    \/ login_post
    \/ login_follow
    \/ login_set_logged_in
    \/ login_set_logout_url
    \/ keepalive
    \/ keepalive_sleep
    \/ interupt_handler

Spec == Init /\ [][Next]_vars

\* The steps of the main thread.
MainLoop ==
    \/ state_check
    \/ run_probed
    \/ run_sleep
    \/ run_fetch_portal
    \/ login_scrape
    \/ login_post
    \/ login_follow
    \/ login_set_logged_in
    \/ login_set_logout_url
    \/ keepalive
    \/ keepalive_sleep

\* The main thread keeps running until the process ends: a request returns or
\* raises, a sleep ends.  When SIGINT arrives, and what the network answers,
\* is left open.
FairSpec == Spec /\ WF_vars(MainLoop)

\* ------------------------------------------------------------------------
\* Step predicates used by the properties

\* A step of the main loop (not the signal handler) that leaves its position.
MainStep(p) == pc = p /\ pc' # p /\ interrupted' = interrupted

\* The step in which SIGINT is delivered and handled.
InterruptStep == ~interrupted /\ interrupted'

\* The positions of the main loop that issue an HTTP request.
RequestPcs ==
    {"state_check", "run_fetch_portal", "login_post", "login_follow",
     "keepalive"}

\* A step of the main loop that issues an HTTP request (a failed canary GET
\* stays at its position, so the request itself identifies the step).
RequestStep ==
    /\ pc \in RequestPcs
    /\ interrupted' = interrupted
    /\ vars' # vars

\* s with every "keepalive" atom replaced by "logout", stated pointwise.
WithLogout(s) ==
    [i \in 1..Len(s) |-> IF s[i] = "keepalive" THEN "logout" ELSE s[i]]

\* ------------------------------------------------------------------------
\* C1: in every reachable state the stored logout URL is non-empty if and
\* only if the session flag is true.
C1_LogoutUrlIffAuthenticated ==
    (logout_url # <<>>) <=> logged_in

\* C2: when SIGINT is delivered while the session is authenticated, the
\* handler issues one GET to the stored logout URL and the process exits
\* with code 0.  (Stated for the deliveries that find a logout URL stored.)
C2_InterruptLogsOutAndExitsZero ==
    [][(InterruptStep /\ logged_in /\ WellFormed(logout_url)) =>
          /\ last_req' = [kind |-> "logout", url |-> logout_url]
          /\ pc' = "done"
          /\ exit_code' = <<0>>
          /\ crash' = "none"]_vars

\* C3: when the logout GET of the handler fails with a transport error, the
\* process still exits with code 0 and without an unhandled error.
C3_FailedLogoutStillExitsZero ==
    [][(InterruptStep /\ logged_in /\ WellFormed(logout_url) /\ net' = None
          /\ last_req'.kind = "logout") =>
          (exit_code' = <<0>> /\ crash' = "none")]_vars

\* The portal page held in `response` lacks the base URL or the magic field.
PortalScrapeFails ==
    \/ \A i \in 1..Len(response.url) : ~IsHttpsBase(response.url[i])
    \/ response.magic = None

\* The credential POST of this step was answered 200 without script redirect.
PostAnsweredWithoutRedirect ==
    /\ net' # None
    /\ net'[1].status = 200
    /\ net'[1].redirect = None

\* C4: every fatal scrape failure of the login step (no base URL, no magic
\* field, a 200 reply to the POST without script redirect) ends the process
\* with exit code 1 at once: no further request, no retry, session
\* unauthenticated.
C4_FatalScrapeExitsOne ==
    [][/\ (MainStep("login_scrape") /\ PortalScrapeFails) =>
            /\ pc' = "done"
            /\ exit_code' = <<1>>
            /\ crash' = "none"
            /\ ~logged_in'
            /\ last_req' = last_req
       /\ (MainStep("login_post") /\ PostAnsweredWithoutRedirect) =>
            /\ pc' = "done"
            /\ exit_code' = <<1>>
            /\ crash' = "none"
            /\ ~logged_in'
       /\ pc = "done" => UNCHANGED vars]_vars

C4_Witness ==
    /\ pc = "done"
    /\ exit_code = <<1>>
    /\ crash = "none"
    /\ ~interrupted
    /\ ~logged_in
    /\ last_req.kind = "post"
    /\ net # None
    /\ net[1].status = 200
    /\ net[1].redirect = None

\* The request of this step failed in a transient way: transport failure,
\* non-200 status, or a redirect away from the keepalive URL.
TransientFailure ==
    \/ net' = None
    \/ net' # None /\ net'[1].status # 200
    \/ pc = "keepalive" /\ net' # None /\ net'[1].url # ka_url

\* C5: every transient failure at any HTTP request of the main loop (sent to
\* a well-formed URL) makes the state machine restart from Probing; none
\* terminates the process.
C5_TransientFailureRestartsProbing ==
    [][(RequestStep /\ WellFormed(last_req'.url) /\ TransientFailure) =>
          /\ pc' = "state_check"
          /\ exit_code' = <<>>
          /\ crash' = "none"]_vars

\* The step in which __login stores the logout URL and run enters
\* __keepalive; `net` still holds the reply to the GET of the redirect target
\* and last_req the URL that GET was sent to.
EntersKeepingAlive == MainStep("login_set_logout_url")

\* C6 as claimed: KeepingAlive is entered with authenticated true, the
\* keepalive endpoint equal to the session URL (the final URL of the followed
\* login redirect), and logoutURL equal to that session URL with 'keepalive'
\* replaced by 'logout'.
C6_LogoutUrlFromSessionUrl ==
    [][EntersKeepingAlive =>
          /\ pc' = "keepalive"
          /\ logged_in'
          /\ ka_url' = net[1].url
          /\ logout_url' = WithLogout(net[1].url)]_vars

\* C6 as amended: KeepingAlive is entered with authenticated true, the
\* keepalive endpoint equal to the session URL, and logoutURL equal to the
\* redirect target scraped from the POST reply (the URL the GET was sent to)
\* with 'keepalive' replaced by 'logout'.
C6_LogoutUrlFromRedirectTarget ==
    [][EntersKeepingAlive =>
          /\ last_req.kind = "follow"
          /\ net # None
          /\ net[1].status = 200
          /\ pc' = "keepalive"
          /\ logged_in'
          /\ ka_url' = net[1].url
          /\ logout_url' = WithLogout(last_req.url)]_vars

C6_Witness ==
    /\ pc = "keepalive"
    /\ last_req.kind = "follow"
    /\ logged_in
    /\ ka_url = net[1].url
    /\ ka_url # last_req.url
    /\ logout_url # last_req.url
    /\ logout_url = WithLogout(last_req.url)

\* C7: a keepalive GET answered 200 with a URL other than the requested one
\* ends the loop without sleeping, sets authenticated to false, and the next
\* step of the controller is a canary probe.
C7_RedirectedKeepaliveBackToProbing ==
    [][/\ (MainStep("keepalive") /\ net' # None /\ net'[1].status = 200
             /\ net'[1].url # ka_url) =>
            (~logged_in' /\ pc' = "state_check")
       /\ (pc = "state_check" /\ interrupted' = interrupted /\ vars' # vars) =>
            last_req' = [kind |-> "probe", url |-> ONE_ONE_ONE_ONE]]_vars

C7_Witness ==
    /\ pc = "state_check"
    /\ last_req.kind = "keepalive"
    /\ net # None
    /\ net[1].status = 200
    /\ net[1].url # last_req.url
    /\ ~logged_in

\* C8: the keepalive loop runs only while authenticated: whenever the main
\* thread is in __keepalive (about to issue a GET, or sleeping between two)
\* the session flag is true.
C8_KeepaliveOnlyWhileAuthenticated ==
    pc \in {"keepalive", "keepalive_sleep"} => logged_in

C8_Witness ==
    /\ pc = "keepalive"
    /\ last_req = [kind |-> "keepalive", url |-> ka_url]
    /\ logged_in

\* C9: the probe returns authenticated = true iff the final URL of the canary
\* response is the secure canary URL, and in either case returns that response.
C9_ProbeClassifiesBySecureCanary ==
    [][MainStep("state_check") =>
          /\ pc' = "run_probed"
          /\ net' # None
          /\ status' <=> (net'[1].url = <<"https://1.1.1.1/">>)
          /\ response' = net'[1]]_vars

C9_Witness ==
    /\ pc = "run_probed"
    /\ ~status
    /\ net # None
    /\ response = net[1]
    /\ response.url = <<"http://1.1.1.1/">>

\* C10: a probe leaves authenticated and logoutURL as they were, whatever
\* the network does, and a probe that sees the same final URL as the previous
\* one returns the same classification.
C10_ProbeLeavesSessionUnchanged ==
    [][(pc = "state_check" /\ interrupted' = interrupted) =>
          /\ logged_in' = logged_in
          /\ logout_url' = logout_url
          /\ (pc' = "run_probed" /\ net'[1].url = last_probe.url) =>
                status' = last_probe.status]_vars

C10_Witness ==
    /\ pc = "run_probed"
    /\ last_req.kind = "probe"
    /\ status
    /\ logout_url # <<>>

\* C11: when SIGINT is delivered while the session is not authenticated
\* (also after a keepalive loss, with the lost session's logout URL still
\* stored), the process exits with code 0 without issuing any HTTP request.
C11_InterruptWhenLoggedOutExitsSilently ==
    [][(InterruptStep /\ ~logged_in) =>
          /\ pc' = "done"
          /\ exit_code' = <<0>>
          /\ crash' = "none"
          /\ last_req' = last_req
          /\ tick' = tick
          /\ net' = net]_vars

C11_Witness ==
    /\ pc = "done"
    /\ interrupted
    /\ exit_code = <<0>>
    /\ ~logged_in
    /\ logout_url # <<>>
    /\ last_req.kind = "keepalive"

\* C12: at every point of the main loop where SIGINT can be delivered, the
\* pair the handler reads is consistent: authenticated never comes with an
\* empty logout URL nor with the logout URL of a previous session.
C12_HandlerSeesConsistentPair ==
    (pc # "done" /\ logged_in) =>
        /\ logout_url # <<>>
        /\ pc = "login_set_logout_url" => logout_url = WithLogout(url)

\* C13: in Probing, a not-authenticated probe response without script
\* redirect is fatal like the other scrape failures: error logged, exit
\* code 1 by exit(), no further request.
C13_MissingInitialRedirectExitsOne ==
    [][(MainStep("run_probed") /\ ~status /\ response.redirect = None) =>
          /\ pc' = "done"
          /\ exit_code' = <<1>>
          /\ crash' = "none"
          /\ last_req' = last_req]_vars

\* A step of __state_check's loop: one canary GET.
ProbeRequestStep ==
    /\ pc = "state_check"
    /\ interrupted' = interrupted
    /\ tick' # tick

\* The safety half of C14: a transport failure of the canary GET neither
\* returns from the probe nor ends the process, and the probe returns only
\* with a received response.
ProbeSurvivesTransportFailure ==
    [][ProbeRequestStep =>
          /\ net' = None => (pc' = "state_check" /\ exit_code' = <<>>)
          /\ pc' # "state_check" => net' # None]_vars

\* C14 as claimed: the prober retries on transport failure without returning
\* or terminating, returns only with a response, and if the network
\* eventually answers the probe eventually returns (a probe that never
\* returns is one whose requests all fail from some point on).
C14_ProbeReturnsOnceAnswered ==
    /\ ProbeSurvivesTransportFailure
    /\ <>[](pc = "state_check") => <>[](net = None)

\* C14 as amended: the same, with the probe returning once the network
\* answers with status 200 (a probe that never returns is one whose requests
\* all fail or are answered with another status from some point on).
C14_ProbeReturnsOnceAnswered200 ==
    /\ ProbeSurvivesTransportFailure
    /\ <>[](pc = "state_check") =>
          <>[](net = None \/ net[1].status # 200)

C14_Witness ==
    /\ pc = "state_check"
    /\ last_req.kind = "probe"
    /\ net = None
    /\ exit_code = <<>>

\* The positions of run and __login up to the assignment of line 353.
BeforeLoginPcs ==
    {"state_check", "run_probed", "run_sleep", "run_fetch_portal",
     "login_scrape", "login_post", "login_follow", "login_set_logged_in"}

\* C15: whenever control is back in Probing after a failed portal fetch, a
\* failed login attempt or a keepalive loss, authenticated is false: every
\* probe and every credential POST happens with authenticated false.
C15_UnauthenticatedOutsideKeepalive ==
    pc \in BeforeLoginPcs => ~logged_in

C15_Witness ==
    /\ pc = "login_post"
    /\ ~logged_in
    /\ logout_url # <<>>

\* C16: every credential POST carries the submission URL and the magic token
\* of the portal page fetched in the same iteration; the request before a
\* POST is always that fetch, so a page is posted at most once and a retry
\* re-probes and re-fetches first.
C16_FormFreshForEveryPost ==
    [][MainStep("login_post") =>
          /\ last_req.kind = "portal"
          /\ net # None
          /\ net[1].status = 200
          /\ last_req'.kind = "post"
          /\ \E i \in 1..Len(net[1].url) :
                /\ IsHttpsBase(net[1].url[i])
                /\ \A j \in 1..(i - 1) : ~IsHttpsBase(net[1].url[j])
                /\ last_req'.url = <<net[1].url[i]>>
          /\ sent_magic' # None
          /\ sent_magic' = net[1].magic]_vars

C16_Witness ==
    /\ last_req.kind = "post"
    /\ sent_magic = Some("m2")
    /\ logout_url # <<>>

\* The login attempt of this step failed in a retryable way.
RetryableLoginFailure ==
    \/ MainStep("login_post") /\ net' = None
    \/ MainStep("login_post") /\ net' # None /\ net'[1].status # 200
    \/ MainStep("login_follow") /\ net' # None /\ net'[1].status # 200

\* C17: a login attempt that fails in a retryable way leaves the Session as
\* it was (authenticated false, logoutURL unchanged) and the caller goes
\* back to the prober without starting the keepalive loop.
C17_RetryableLoginFailureKeepsSession ==
    [][RetryableLoginFailure =>
          /\ ~logged_in
          /\ ~logged_in'
          /\ logout_url' = logout_url
          /\ pc' = "state_check"
          /\ exit_code' = <<>>]_vars

C17_Witness ==
    /\ pc = "state_check"
    /\ last_req.kind = "follow"
    /\ net # None
    /\ net[1].status # 200
    /\ ~logged_in
    /\ logout_url # <<>>

\* C18: after a keepalive GET answered 200 with the requested URL the loop
\* sleeps and then issues the next GET to the same URL; the session stays
\* authenticated with the same logoutURL and no other request is issued.
C18_HealthyKeepaliveKeepsLooping ==
    [][/\ (MainStep("keepalive") /\ net' # None /\ net'[1].status = 200
             /\ net'[1].url = ka_url) =>
            /\ pc' = "keepalive_sleep"
            /\ logged_in /\ logged_in'
            /\ logout_url' = logout_url
            /\ ka_url' = ka_url
       /\ MainStep("keepalive_sleep") =>
            /\ pc' = "keepalive"
            /\ logged_in'
            /\ logout_url' = logout_url
            /\ ka_url' = ka_url
            /\ tick' = tick
       /\ (pc = "keepalive" /\ interrupted' = interrupted /\ tick' # tick) =>
            last_req' = [kind |-> "keepalive", url |-> ka_url]]_vars

C18_Witness ==
    /\ pc = "keepalive"
    /\ last_req = [kind |-> "keepalive", url |-> ka_url]
    /\ net # None
    /\ net[1].status = 200
    /\ net[1].url = ka_url
    /\ logged_in

\* C19: after a probe classified as authenticated the controller sleeps for
\* the retry interval and probes again; it issues no portal fetch, no
\* credential POST and no keepalive GET.
C19_AuthenticatedProbeStaysInProbing ==
    [][/\ (MainStep("run_probed") /\ status) =>
            (pc' = "run_sleep" /\ tick' = tick /\ status')
       /\ MainStep("run_sleep") =>
            (pc' = "state_check" /\ tick' = tick)
       /\ (pc \in {"state_check", "run_probed", "run_sleep"}
             /\ (pc = "run_probed" => status)
             /\ interrupted' = interrupted /\ tick' # tick) =>
            last_req' = [kind |-> "probe", url |-> ONE_ONE_ONE_ONE]]_vars

C19_Witness ==
    /\ pc = "state_check"
    /\ last_req.kind = "probe"
    /\ net # None
    /\ net[1].status = 200
    /\ net[1].url = ONE_ONE_ONE_ONE_HTTPS
    /\ last_probe.status

\* The gateway has accepted the login and no loss has been detected since.
SessionOpen ==
    pc \in {"login_set_logged_in", "login_set_logout_url", "keepalive",
            "keepalive_sleep"}

\* The logout URL of the open session.
OpenSessionLogoutUrl ==
    IF pc \in {"login_set_logged_in", "login_set_logout_url"}
    THEN WithLogout(url)
    ELSE logout_url

\* C20: when SIGINT is delivered at any moment after the gateway accepted the
\* login and before a session loss is detected, the handler issues a logout
\* GET to the logout URL of that session before the process exits.
C20_OpenSessionIsLoggedOut ==
    [][(InterruptStep /\ SessionOpen) =>
          last_req' = [kind |-> "logout", url |-> OpenSessionLogoutUrl]]_vars

====
